---- MODULE Spec2Model ----
(***************************************************************************)
(* Model of app.py: the in-memory annotation store behind the Flask       *)
(* handlers save_annotation, get_annotations, set_critical_moment,        *)
(* get_critical_moment and review_annotations, and the /videos folder     *)
(* scan.                                                                  *)
(*                                                                        *)
(* Representation.  A JSON/Python string is a sequence of one-character   *)
(* strings, so that float() and os.path.splitext can be computed on it.   *)
(* A JSON value is a tagged record (None, StrV, IntV, FloatV).  A Python     *)
(* dict with string keys is a function whose domain is its key set, so a  *)
(* missing key is a key outside the domain.  A float is either finite,    *)
(* kept exactly in thousandths, or one of inf, -inf, nan.  Python objects *)
(* that are shared by reference (the per-video record dicts) live in      *)
(* heap; annotations_db maps a video id to the index of its record.       *)
(***************************************************************************)
EXTENDS Integers, Sequences, FiniteSets, TLC

VARIABLES
    annotations_db, \* the module-level dict: video id -> index of its record
    heap,           \* the record dicts, in order of creation
    now,            \* the server clock read by time.strftime
    request,        \* the request being answered (one at a time)
    response,       \* its response
    saved,          \* per video id, the entries answered with "success"
    lastSet,        \* per video id, the float of the last successful set
    threads,        \* the concurrent request threads: position and locals
    fs,             \* the content of static/blasts
    blasts          \* the /videos scan: whether it ran, and its list

vars == <<annotations_db, heap, now, request, response, saved, lastSet,
          threads, fs, blasts>>

(* ------------------------------ bounds --------------------------------- *)
\* Total number of annotation entries the store may hold.
MaxAnn == 2
\* Largest reading of the server clock (seconds after the first reading).
MaxClock == 1
\* Number of concurrently running request threads.
NThreads == 2
\* Largest number of entries in the scanned blast folder.
MaxFiles == 4

(* --------------------------- JSON values ------------------------------- *)
None == [t |-> "null"]
StrV(cs) == [t |-> "str", s |-> cs]
IntV(n) == [t |-> "int", i |-> n]
\* A finite float, m thousandths.
FloatV(m) == [t |-> "float", k |-> "fin", m |-> m]
Inf == [t |-> "float", k |-> "inf", m |-> 0]
NegInf == [t |-> "float", k |-> "-inf", m |-> 0]
NaN == [t |-> "float", k |-> "nan", m |-> 0]
\* A raised exception, as the result of an evaluation.
Raise(name) == [t |-> "raise", exc |-> name]

IsRaise(v) == v.t = "raise"
IsFloat(v) == v.t = "float"
IsFiniteFloat(v) == v.t = "float" /\ v.k = "fin"

\* Python truthiness, as used by "if not video_id".
Truthy_emptyOk(v) == v.t # "null"
Truthy(v) ==
    CASE v.t = "null" -> FALSE
      [] v.t = "str" -> v.s # <<>>
      [] v.t = "int" -> v.i # 0
      [] v.t = "float" -> ~(v.k = "fin" /\ v.m = 0)
      [] OTHER -> TRUE

(* --------------------------- Python dicts ------------------------------ *)
EmptyDict == [k \in {} |-> None]
\* d.get(k): the value, or None when the key is missing.
DictGet(d, k) == IF k \in DOMAIN d THEN d[k] ELSE None
\* d[k] = v
DictSet(d, k, v) == [x \in (DOMAIN d) \cup {k} |-> IF x = k THEN v ELSE d[x]]

(* ---------------------------- characters ------------------------------- *)
Digits == {"0", "1", "2", "3", "4", "5", "6", "7", "8", "9"}
DigitVal(c) ==
    CASE c = "0" -> 0 [] c = "1" -> 1 [] c = "2" -> 2 [] c = "3" -> 3
      [] c = "4" -> 4 [] c = "5" -> 5 [] c = "6" -> 6 [] c = "7" -> 7
      [] c = "8" -> 8 [] c = "9" -> 9

\* str.lower() on one character, for the letters the model's inputs use.
LowerChar(c) ==
    CASE c = "A" -> "a" [] c = "B" -> "b" [] c = "C" -> "c" [] c = "D" -> "d"
      [] c = "F" -> "f" [] c = "I" -> "i" [] c = "M" -> "m" [] c = "N" -> "n"
      [] c = "P" -> "p" [] c = "S" -> "s" [] c = "T" -> "t" [] c = "V" -> "v"
      [] c = "X" -> "x" [] c = "Y" -> "y"
      [] OTHER -> c
PyLower_identity(s) == s
PyLower(s) == [i \in 1..Len(s) |-> LowerChar(s[i])]

(* ------------------------------ float() -------------------------------- *)
\* Leading and trailing blanks are ignored by float(str).
RECURSIVE LStrip(_)
LStrip(s) == IF s # <<>> /\ Head(s) = " " THEN LStrip(Tail(s)) ELSE s
RECURSIVE RStrip(_)
RStrip(s) ==
    IF s # <<>> /\ s[Len(s)] = " " THEN RStrip(SubSeq(s, 1, Len(s) - 1)) ELSE s
PyStrip(s) == RStrip(LStrip(s))

AllDigits(s) == \A i \in 1..Len(s) : s[i] \in Digits
RECURSIVE ParseNat(_)
ParseNat(s) ==
    IF s = <<>> THEN 0
    ELSE 10 * ParseNat(SubSeq(s, 1, Len(s) - 1)) + DigitVal(s[Len(s)])

\* Position of the first "." of s, or 0.
RECURSIVE FindDot(_, _)
FindDot(s, i) ==
    IF i > Len(s) THEN 0 ELSE IF s[i] = "." THEN i ELSE FindDot(s, i + 1)

\* The thousandths denoted by a fraction of at most three digits.
FracMilli(f) ==
    CASE Len(f) = 0 -> 0
      [] Len(f) = 1 -> 100 * ParseNat(f)
      [] Len(f) = 2 -> 10 * ParseNat(f)
      [] OTHER -> ParseNat(SubSeq(f, 1, 3))

\* An unsigned decimal "ddd", "ddd.ddd", "ddd." or ".ddd" (inputs carry no
\* exponent, no underscore and at most three fraction digits).
ParseDecimal(u) ==
    LET d == FindDot(u, 1)
        ip == IF d = 0 THEN u ELSE SubSeq(u, 1, d - 1)
        fp == IF d = 0 THEN <<>> ELSE SubSeq(u, d + 1, Len(u))
    IN IF AllDigits(ip) /\ AllDigits(fp) /\ Len(ip) + Len(fp) > 0
       THEN FloatV(1000 * ParseNat(ip) + FracMilli(fp))
       ELSE Raise("ValueError")

Negate(v) ==
    CASE IsRaise(v) -> v
      [] v.k = "fin" -> FloatV(0 - v.m)
      [] v.k = "inf" -> NegInf
      [] v.k = "-inf" -> Inf
      [] OTHER -> v

\* float(str)
FloatOfStr(s) ==
    LET b == PyStrip(s)
        neg == b # <<>> /\ Head(b) = "-"
        u == IF b # <<>> /\ Head(b) \in {"+", "-"} THEN Tail(b) ELSE b
        w == PyLower(u)
        mag == CASE w \in {<<"i", "n", "f">>,
                           <<"i", "n", "f", "i", "n", "i", "t", "y">>} -> Inf
                 [] w = <<"n", "a", "n">> -> NaN
                 [] OTHER -> ParseDecimal(u)
    IN IF neg THEN Negate(mag) ELSE mag

\* float(x) for a JSON value x.
PyFloat(v) ==
    CASE v.t = "float" -> v
      [] v.t = "int" -> FloatV(1000 * v.i)
      [] v.t = "str" -> FloatOfStr(v.s)
      [] OTHER -> Raise("TypeError")

(* -------------------------- time.strftime ------------------------------ *)
\* Two decimal digits of n < 100.
TwoDigits(n) ==
    LET d == <<"0", "1", "2", "3", "4", "5", "6", "7", "8", "9">>
    IN <<d[(n \div 10) + 1], d[(n % 10) + 1]>>
\* time.strftime("%Y-%m-%d %H:%M:%S") at clock reading c, counted in seconds
\* from 2025-01-01 12:00:00.
Strftime(c) ==
    StrV(<<"2", "0", "2", "5", "-", "0", "1", "-", "0", "1", " ",
          "1", "2", ":", "0", "0", ":">> \o TwoDigits(c))

(* ------------------------------ the store ------------------------------ *)
V1 == <<"v", "1">>
V2 == <<"v", "2">>
\* The video ids requests name.
VideoIds == {StrV(V1), StrV(V2)}

\* {'annotations': [], 'critical_moment': None}
NewRecord == [annotations |-> <<>>, critical_moment |-> None]

\* annotations_db[video_id] = {...}: a fresh record object bound to the key
\* (an existing binding is replaced).
BindNew(db, video_id, h) ==
    [x \in (DOMAIN db) \cup {video_id} |->
        IF x = video_id THEN Len(h) + 1 ELSE db[x]]

\* if video_id not in annotations_db: annotations_db[video_id] = {...}
EnsureDb(db, h, video_id) ==
    IF video_id \notin DOMAIN db THEN BindNew(db, video_id, h) ELSE db
EnsureHeap(db, h, video_id) ==
    IF video_id \notin DOMAIN db THEN Append(h, NewRecord) ELSE h

\* list.append
ListAppend_front(l, x) == <<x>> \o l
ListAppend(l, x) == Append(l, x)

\* record['annotations'].append(data) on the record object at index r
AppendAnnotation_overwrite(h, r, data) ==
    [h EXCEPT ![r].annotations = <<data>>]
AppendAnnotation(h, r, data) ==
    [h EXCEPT ![r].annotations = ListAppend(h[r].annotations, data)]

\* record['critical_moment'] = value on the record object at index r
StoreCritical_reset(h, r, value) ==
    [h EXCEPT ![r] = [annotations |-> <<>>, critical_moment |-> value]]
StoreCritical_keepFirst(h, r, value) ==
    IF h[r].critical_moment = None
    THEN [h EXCEPT ![r].critical_moment = value] ELSE h
StoreCritical(h, r, value) == [h EXCEPT ![r].critical_moment = value]

\* The record a video id is bound to.
Rec(video_id) == heap[annotations_db[video_id]]

RECURSIVE SumLen(_, _)
SumLen(h, i) ==
    IF i > Len(h) THEN 0 ELSE Len(h[i].annotations) + SumLen(h, i + 1)
\* Number of annotation entries held by all records.
TotalAnn == SumLen(heap, 1)

(* ----------------------------- responses ------------------------------- *)
\* jsonify(body), code
Json(code, body) == [code |-> code, kind |-> "json", body |-> body]
\* An exception that leaves the handler: Flask answers 500.
ServerError(exc) ==
    [code |-> 500, kind |-> "exception", body |-> [exception |-> exc.exc]]
NoVideoId ==
    Json(400, [status |-> "error", message |-> "No video_id provided"])

(* ------------------------------ requests ------------------------------- *)
Comment == StrV(<<"r", "o", "c", "k">>)
Alice == StrV(<<"A">>)
\* Values sent as "time".
TimeInputs ==
    {StrV(<<"1", "2", ".", "3", "4">>), StrV(<<"a", "b", "c">>)}
\* Values sent as "critical_moment".
CriticalInputs ==
    {FloatV(7500), StrV(<<"5", ".", "0">>),
     StrV(<<"i", "n", "f">>), StrV(<<"a", "b", "c">>)}

\* JSON bodies posted to /save_annotation: every time for V1, with and
\* without the key; a good and a bad one for V2; an empty and a missing id.
SaveBodies ==
    {[video_id |-> StrV(V1), time |-> tm, comment |-> Comment,
      user |-> Alice] : tm \in TimeInputs}
    \cup {[video_id |-> StrV(V2), time |-> tm, comment |-> Comment,
           user |-> Alice] : tm \in {IntV(5), StrV(<<"a", "b", "c">>)}}
    \cup {[video_id |-> StrV(V1), comment |-> Comment, user |-> Alice],
          [video_id |-> StrV(<<>>), time |-> IntV(5), comment |-> Comment,
           user |-> Alice],
          [time |-> IntV(5), comment |-> Comment, user |-> Alice]}

\* JSON bodies posted to /set_critical_moment, likewise.
CriticalBodies ==
    {[video_id |-> StrV(V1), critical_moment |-> c] : c \in CriticalInputs}
    \cup {[video_id |-> StrV(V2), critical_moment |-> c] :
            c \in {FloatV(7500), StrV(<<"a", "b", "c">>)}}
    \cup {[video_id |-> StrV(V1)],
          [video_id |-> StrV(<<>>), critical_moment |-> FloatV(7500)],
          [critical_moment |-> FloatV(7500)]}

\* Query strings of the GET routes.
QueryArgs == {[video_id |-> v] : v \in VideoIds} \cup {EmptyDict}

(* ------------------- handlers, one request at a time ------------------- *)
\* save_annotation: the response to body data in store (db, h) at clock c.
SaveResponse(db, h, c, data) ==
    LET video_id == DictGet(data, "video_id")
        stamped == DictSet(data, "timestamp", Strftime(c))
        tm == IF "time" \in DOMAIN stamped THEN PyFloat(stamped["time"])
              ELSE Raise("KeyError")
    IN IF ~Truthy(video_id) THEN NoVideoId
       ELSE IF IsRaise(tm) THEN ServerError(tm)
       ELSE Json(200, [status |-> "success",
                       data |-> DictSet(stamped, "time", tm)])

SaveAnnotation(data) ==
    LET video_id == DictGet(data, "video_id")
        resp == SaveResponse(annotations_db, heap, now, data)
        db1 == EnsureDb(annotations_db, heap, video_id)
        h1 == EnsureHeap(annotations_db, heap, video_id)
    IN /\ resp.code = 200 => TotalAnn < MaxAnn
       /\ request' = [op |-> "save_annotation", data |-> data]
       /\ response' = resp
       /\ IF ~Truthy(video_id)
          THEN UNCHANGED <<annotations_db, heap, saved>>
          ELSE /\ annotations_db' = db1
               /\ IF resp.code = 200
                  THEN /\ heap' = AppendAnnotation(h1, db1[video_id],
                                                   resp.body.data)
                       /\ saved' = [saved EXCEPT ![video_id] =
                                        Append(@, resp.body.data)]
                  ELSE /\ heap' = h1
                       /\ UNCHANGED saved
       /\ UNCHANGED <<now, lastSet, threads, fs, blasts>>

\* get_annotations
GetAnnotations(args) ==
    LET video_id == DictGet(args, "video_id")
    IN /\ request' = [op |-> "get_annotations", data |-> args]
       /\ response' =
            IF ~Truthy(video_id) \/ video_id \notin DOMAIN annotations_db
            THEN Json(200, <<>>)
            ELSE Json(200, Rec(video_id).annotations)
       /\ UNCHANGED <<annotations_db, heap, now, saved, lastSet, threads,
                      fs, blasts>>

\* set_critical_moment
SetCriticalMoment(data) ==
    LET video_id == DictGet(data, "video_id")
        critical_moment == DictGet(data, "critical_moment")
        db1 == EnsureDb(annotations_db, heap, video_id)
        h1 == EnsureHeap(annotations_db, heap, video_id)
        value == PyFloat(critical_moment)
    IN /\ request' = [op |-> "set_critical_moment", data |-> data]
       /\ IF ~Truthy(video_id)
          THEN /\ response' = NoVideoId
               /\ UNCHANGED <<annotations_db, heap, lastSet>>
          ELSE /\ annotations_db' = db1
               /\ IF IsRaise(value)
                  THEN /\ heap' = h1
                       /\ response' = ServerError(value)
                       /\ UNCHANGED lastSet
                  ELSE /\ heap' = StoreCritical(h1, db1[video_id], value)
                       /\ response' =
                            Json(200, [status |-> "success",
                                       critical_moment |-> critical_moment])
                       /\ lastSet' = [lastSet EXCEPT ![video_id] = value]
       /\ UNCHANGED <<now, saved, threads, fs, blasts>>

\* get_critical_moment
GetCriticalMoment(args) ==
    LET video_id == DictGet(args, "video_id")
    IN /\ request' = [op |-> "get_critical_moment", data |-> args]
       /\ response' =
            IF ~Truthy(video_id) \/ video_id \notin DOMAIN annotations_db
            THEN Json(200, [critical_moment |-> None])
            ELSE Json(200, [critical_moment |->
                                Rec(video_id).critical_moment])
       /\ UNCHANGED <<annotations_db, heap, now, saved, lastSet, threads,
                      fs, blasts>>

\* review_annotations
ReviewAnnotations(args) ==
    LET video_id == DictGet(args, "video_id")
    IN /\ request' = [op |-> "review_annotations", data |-> args]
       /\ response' =
            IF ~Truthy(video_id) \/ video_id \notin DOMAIN annotations_db
            THEN Json(200, [annotations |-> <<>>,
                            message |-> "No data for this video_id"])
            ELSE Json(200, [video_id |-> video_id,
                            annotations |-> Rec(video_id).annotations])
       /\ UNCHANGED <<annotations_db, heap, now, saved, lastSet, threads,
                      fs, blasts>>

\* The server clock advances between requests.
Tick ==
    /\ now < MaxClock
    /\ now' = now + 1
    /\ UNCHANGED <<annotations_db, heap, request, response, saved, lastSet,
                   threads, fs, blasts>>

NoRequest == [op |-> "none", data |-> EmptyDict]
NoResponse == [code |-> 0, kind |-> "none", body |-> EmptyDict]
\* A thread that has not yet received its request.
Idle == [pc |-> "idle", op |-> "none", data |-> EmptyDict, val |-> None,
         ref |-> 0, resp |-> NoResponse]
IdleThreads == [t \in 1..NThreads |-> Idle]
NoScan == [done |-> FALSE, list |-> <<>>]

\* The state after the module is loaded: annotations_db = {}.
Init ==
    /\ annotations_db = EmptyDict
    /\ heap = <<>>
    /\ now = 0
    /\ request = NoRequest
    /\ response = NoResponse
    /\ saved = [v \in VideoIds |-> <<>>]
    /\ lastSet = [v \in VideoIds |-> None]
    /\ threads = IdleThreads
    /\ fs = <<>>
    /\ blasts = NoScan

Next ==
    \/ \E data \in SaveBodies : SaveAnnotation(data)
    \/ \E args \in QueryArgs : GetAnnotations(args)
    \/ \E data \in CriticalBodies : SetCriticalMoment(data)
    \/ \E args \in QueryArgs : GetCriticalMoment(args)
    \/ \E args \in QueryArgs : ReviewAnnotations(args)
    \/ Tick

Spec == Init /\ [][Next]_vars

(* ------------- handlers, statement by statement, in threads ------------ *)
\* The threaded server runs each request in a thread of its own; a thread
\* switch can fall between any two of the steps below.  A thread's locals:
\* data (the JSON body, as the handler has modified it so far), val (the
\* float computed for critical_moment), ref (the record object it looked
\* up), resp (its response).
Threads == 1..NThreads
\* The user name thread t's client sends.
User(t) == StrV(<<"u">> \o TwoDigits(t))
\* JSON bodies posted to /save_annotation by thread t's client.
ThreadSaveBodies(t) ==
    {[video_id |-> StrV(V1), time |-> StrV(<<"1", "2", ".", "3", "4">>),
      comment |-> Comment, user |-> User(t)],
     [video_id |-> StrV(V1), time |-> StrV(<<"a", "b", "c">>),
      comment |-> Comment, user |-> User(t)],
     [video_id |-> StrV(V2), time |-> IntV(5), comment |-> Comment,
      user |-> User(t)],
     [time |-> IntV(5), comment |-> Comment, user |-> User(t)]}
\* JSON bodies posted to /set_critical_moment.
ThreadCriticalBodies ==
    {[video_id |-> StrV(V1), critical_moment |-> FloatV(7500)],
     [video_id |-> StrV(V1), critical_moment |-> StrV(<<"a", "b", "c">>)],
     [video_id |-> StrV(<<>>), critical_moment |-> FloatV(7500)]}

Others == <<now, request, response, lastSet, fs, blasts>>
Goto(t, pc) == threads' = [threads EXCEPT ![t].pc = pc]
Finish(t, resp) ==
    threads' = [threads EXCEPT ![t].pc = "done", ![t].resp = resp]

\* save_annotation, up to "if not video_id: return ..., 400"
BeginSave(t, data) ==
    /\ threads[t].pc = "idle"
    /\ threads' = [threads EXCEPT ![t] =
          IF ~Truthy(DictGet(data, "video_id"))
          THEN [@ EXCEPT !.pc = "done", !.op = "save_annotation",
                         !.data = data, !.resp = NoVideoId]
          ELSE [@ EXCEPT !.pc = "sa_check", !.op = "save_annotation",
                         !.data = data]]
    /\ UNCHANGED <<annotations_db, heap, saved, Others>>

\* if video_id not in annotations_db:
SaCheck(t) ==
    /\ threads[t].pc = "sa_check"
    /\ Goto(t, IF threads[t].data["video_id"] \notin DOMAIN annotations_db
               THEN "sa_create" ELSE "sa_stamp")
    /\ UNCHANGED <<annotations_db, heap, saved, Others>>

\*     annotations_db[video_id] = {'annotations': [], 'critical_moment': None}
SaCreate(t) ==
    /\ threads[t].pc = "sa_create"
    /\ annotations_db' = BindNew(annotations_db, threads[t].data["video_id"],
                                 heap)
    /\ heap' = Append(heap, NewRecord)
    /\ Goto(t, "sa_stamp")
    /\ UNCHANGED <<saved, Others>>

\* data['timestamp'] = time.strftime(...)
SaStamp(t) ==
    /\ threads[t].pc = "sa_stamp"
    /\ threads' = [threads EXCEPT
          ![t].pc = "sa_coerce",
          ![t].data = DictSet(@, "timestamp", Strftime(now))]
    /\ UNCHANGED <<annotations_db, heap, saved, Others>>

\* data['time'] = float(data['time'])
SaCoerce(t) ==
    LET data == threads[t].data
        tm == IF "time" \in DOMAIN data THEN PyFloat(data["time"])
              ELSE Raise("KeyError")
    IN /\ threads[t].pc = "sa_coerce"
       /\ IF IsRaise(tm) THEN Finish(t, ServerError(tm))
          ELSE threads' = [threads EXCEPT ![t].pc = "sa_lookup",
                                          ![t].data = DictSet(@, "time", tm)]
       /\ UNCHANGED <<annotations_db, heap, saved, Others>>

\* annotations_db[video_id]['annotations'] : the record object is looked up
SaLookup(t) ==
    /\ threads[t].pc = "sa_lookup"
    /\ threads' = [threads EXCEPT
          ![t].pc = "sa_append",
          ![t].ref = annotations_db[threads[t].data["video_id"]]]
    /\ UNCHANGED <<annotations_db, heap, saved, Others>>

\* .append(data) on that object's list
SaAppend(t) ==
    /\ threads[t].pc = "sa_append"
    /\ heap' = AppendAnnotation(heap, threads[t].ref, threads[t].data)
    /\ Goto(t, "sa_return")
    /\ UNCHANGED <<annotations_db, saved, Others>>

\* return jsonify({"status": "success", "data": data}), 200
SaReturn(t) ==
    /\ threads[t].pc = "sa_return"
    /\ Finish(t, Json(200, [status |-> "success", data |-> threads[t].data]))
    /\ saved' = [saved EXCEPT ![threads[t].data["video_id"]] =
                    Append(@, threads[t].data)]
    /\ UNCHANGED <<annotations_db, heap, Others>>

\* set_critical_moment, up to "if not video_id: return ..., 400"
BeginSet(t, data) ==
    /\ threads[t].pc = "idle"
    /\ threads' = [threads EXCEPT ![t] =
          IF ~Truthy(DictGet(data, "video_id"))
          THEN [@ EXCEPT !.pc = "done", !.op = "set_critical_moment",
                         !.data = data, !.resp = NoVideoId]
          ELSE [@ EXCEPT !.pc = "cm_check", !.op = "set_critical_moment",
                         !.data = data]]
    /\ UNCHANGED <<annotations_db, heap, saved, Others>>

\* if video_id not in annotations_db:
CmCheck(t) ==
    /\ threads[t].pc = "cm_check"
    /\ Goto(t, IF threads[t].data["video_id"] \notin DOMAIN annotations_db
               THEN "cm_create" ELSE "cm_coerce")
    /\ UNCHANGED <<annotations_db, heap, saved, Others>>

\*     annotations_db[video_id] = {'annotations': [], 'critical_moment': None}
CmCreate(t) ==
    /\ threads[t].pc = "cm_create"
    /\ annotations_db' = BindNew(annotations_db, threads[t].data["video_id"],
                                 heap)
    /\ heap' = Append(heap, NewRecord)
    /\ Goto(t, "cm_coerce")
    /\ UNCHANGED <<saved, Others>>

\* float(critical_moment): the right-hand side is evaluated first
CmCoerce(t) ==
    LET value == PyFloat(DictGet(threads[t].data, "critical_moment"))
    IN /\ threads[t].pc = "cm_coerce"
       /\ IF IsRaise(value) THEN Finish(t, ServerError(value))
          ELSE threads' = [threads EXCEPT ![t].pc = "cm_lookup",
                                          ![t].val = value]
       /\ UNCHANGED <<annotations_db, heap, saved, Others>>

\* annotations_db[video_id] : the record object is looked up
CmLookup(t) ==
    /\ threads[t].pc = "cm_lookup"
    /\ threads' = [threads EXCEPT
          ![t].pc = "cm_store",
          ![t].ref = annotations_db[threads[t].data["video_id"]]]
    /\ UNCHANGED <<annotations_db, heap, saved, Others>>

\* [...]['critical_moment'] = ... on that object
CmStore(t) ==
    /\ threads[t].pc = "cm_store"
    /\ heap' = StoreCritical(heap, threads[t].ref, threads[t].val)
    /\ Goto(t, "cm_return")
    /\ UNCHANGED <<annotations_db, saved, Others>>

\* return jsonify({"status": "success", "critical_moment": ...}), 200
CmReturn(t) ==
    /\ threads[t].pc = "cm_return"
    /\ Finish(t, Json(200, [status |-> "success",
                            critical_moment |->
                                threads[t].data["critical_moment"]]))
    /\ UNCHANGED <<annotations_db, heap, saved, Others>>

NextConc ==
    \/ \E t \in Threads : \E data \in ThreadSaveBodies(t) : BeginSave(t, data)
    \/ \E t \in Threads : SaCheck(t)
    \/ \E t \in Threads : SaCreate(t)
    \/ \E t \in Threads : SaStamp(t)
    \/ \E t \in Threads : SaCoerce(t)
    \/ \E t \in Threads : SaLookup(t)
    \/ \E t \in Threads : SaAppend(t)
    \/ \E t \in Threads : SaReturn(t)
    \/ \E t \in Threads : \E data \in ThreadCriticalBodies : BeginSet(t, data)
    \/ \E t \in Threads : CmCheck(t)
    \/ \E t \in Threads : CmCreate(t)
    \/ \E t \in Threads : CmCoerce(t)
    \/ \E t \in Threads : CmLookup(t)
    \/ \E t \in Threads : CmStore(t)
    \/ \E t \in Threads : CmReturn(t)

\* Concurrent requests, each run by a thread of its own.
SpecConc == Init /\ [][NextConc]_vars

(* --------------------------- the /videos scan -------------------------- *)
\* A directory entry: its name, whether os.path.isdir holds of it, and, for
\* a directory, what os.listdir returns for it, in enumeration order.
File(name) == [name |-> name, isdir |-> FALSE, list |-> <<>>]
Dir(name, list) == [name |-> name, isdir |-> TRUE, list |-> list]

\* str.rfind(c): the last position of c in s, 0 when there is none.
RECURSIVE RFind(_, _, _)
RFind(s, c, i) ==
    IF i = 0 THEN 0 ELSE IF s[i] = c THEN i ELSE RFind(s, c, i - 1)

\* genericpath._splitext's loop: the first position in from..dotIndex-1 that
\* holds something else than a dot, 0 when all of them are dots.
RECURSIVE FirstNonDot(_, _, _)
FirstNonDot(p, from, dotIndex) ==
    IF from >= dotIndex THEN 0
    ELSE IF p[from] # "." THEN from
    ELSE FirstNonDot(p, from + 1, dotIndex)

\* os.path.splitext(p)[1]: the extension starts at the last dot, and leading
\* dots of the base name start no extension.
SplitextExt(p) ==
    LET sepIndex == RFind(p, "/", Len(p))
        dotIndex == RFind(p, ".", Len(p))
    IN IF dotIndex > sepIndex /\ FirstNonDot(p, sepIndex + 1, dotIndex) # 0
       THEN SubSeq(p, dotIndex, Len(p))
       ELSE <<>>

Mp4 == <<".", "m", "p", "4">>
Csv == <<".", "c", "s", "v">>
Pdf == <<".", "p", "d", "f">>

\* url_for('static', filename=f'blasts/{folder}/{name}')
StaticUrl(folder, name) ==
    <<"/", "s", "t", "a", "t", "i", "c", "/", "b", "l", "a", "s", "t", "s",
      "/">> \o folder \o <<"/">> \o name

\* The loop over os.listdir(folder_path), from entry i on, with the three
\* variables as they stand: the variables after the last entry.
RECURSIVE ScanFiles(_, _, _)
ScanFiles(list, i, found) ==
    IF i > Len(list) THEN found
    ELSE LET filename == list[i].name
             ext == PyLower(SplitextExt(filename))
         IN IF list[i].isdir THEN ScanFiles(list, i + 1, found)
            ELSE IF ext = Mp4
            THEN ScanFiles(list, i + 1,
                           [found EXCEPT !.video_file = StrV(filename)])
            ELSE IF ext = Csv
            THEN ScanFiles(list, i + 1,
                           [found EXCEPT !.csv_file = StrV(filename)])
            ELSE IF ext = Pdf
            THEN ScanFiles(list, i + 1,
                           [found EXCEPT !.pdf_file = StrV(filename)])
            ELSE ScanFiles(list, i + 1, found)

NothingFound == [video_file |-> None, csv_file |-> None, pdf_file |-> None]

\* The loop over blast_folders, from root entry i on: the list blasts.
RECURSIVE ScanFolders(_, _)
ScanFolders(root, i) ==
    IF i > Len(root) THEN <<>>
    ELSE LET folder == root[i].name
             found == ScanFiles(root[i].list, 1, NothingFound)
         IN IF ~root[i].isdir THEN ScanFolders(root, i + 1)
            ELSE IF /\ Truthy(found.video_file)
                    /\ Truthy(found.csv_file)
                    /\ Truthy(found.pdf_file)
            THEN <<[folder |-> folder,
                    video_url |-> StaticUrl(folder, found.video_file.s),
                    csv_url |-> StaticUrl(folder, found.csv_file.s),
                    pdf_url |-> StaticUrl(folder, found.pdf_file.s)]>>
                 \o ScanFolders(root, i + 1)
            ELSE ScanFolders(root, i + 1)

\* list_videos
ListVideos ==
    /\ ~blasts.done
    /\ blasts' = [done |-> TRUE, list |-> ScanFolders(fs, 1)]
    /\ UNCHANGED <<annotations_db, heap, now, request, response, saved,
                   lastSet, threads, fs>>

\* Entries a blast folder may hold: two videos that differ in case, a table,
\* a report, a nested directory with a table's name, a dot file.
EntryPool ==
    {File(<<"x", ".", "m", "p", "4">>), File(<<"Y", ".", "M", "P", "4">>),
     File(<<"a", ".", "c", "s", "v">>), File(<<"a", ".", "P", "d", "f">>),
     Dir(<<"d", ".", "c", "s", "v">>, <<>>), File(<<".", "p", "d", "f">>)}
\* Listings of at most MaxFiles entries, no name twice, in any order.
Listings ==
    {l \in UNION {[1..n -> EntryPool] : n \in 0..MaxFiles} :
        \A i, j \in 1..Len(l) : i # j => l[i] # l[j]}
\* The second folder: complete, or without a report.
OtherListings ==
    {<<File(<<"b", ".", "m", "p", "4">>), File(<<"b", ".", "c", "s", "v">>),
       File(<<"b", ".", "p", "d", "f">>)>>,
     <<File(<<"b", ".", "m", "p", "4">>), File(<<"b", ".", "c", "s", "v">>)>>}
\* Contents of static/blasts: folders A and B in either order, or a plain
\* file next to folder A.
Roots ==
    UNION {{<<Dir(<<"A">>, l), Dir(<<"B">>, o)>>,
            <<Dir(<<"B">>, o), Dir(<<"A">>, l)>>,
            <<File(<<"r", ".", "m", "p", "4">>), Dir(<<"A">>, l)>>} :
           l \in Listings, o \in OtherListings}

\* The scan of any such directory tree.
InitScan ==
    /\ annotations_db = EmptyDict
    /\ heap = <<>>
    /\ now = 0
    /\ request = NoRequest
    /\ response = NoResponse
    /\ saved = [v \in VideoIds |-> <<>>]
    /\ lastSet = [v \in VideoIds |-> None]
    /\ threads = IdleThreads
    /\ fs \in Roots
    /\ blasts = NoScan
NextScan == ListVideos
SpecScan == InitScan /\ [][NextScan]_vars

(* ======================= one request at a time ========================= *)
\* The id a request names, None when it names none.
RequestId(req) == DictGet(req.data, "video_id")
\* The request's video_id is missing or is the empty string.
MissingOrEmptyId(req) ==
    "video_id" \notin DOMAIN req.data \/ req.data["video_id"] = StrV(<<>>)
\* Strings that denote no number.
NonNumeric == {StrV(<<"a", "b", "c">>)}
\* The record bound to video id v in store (db, h).
RecIn(db, h, v) == h[db[v]]
\* The store as a mapping from video id to record content.
Content(db, h) == [v \in DOMAIN db |-> h[db[v]]]
IsPrefix(a, b) == Len(a) <= Len(b) /\ SubSeq(b, 1, Len(a)) = a

\* C1: a save_annotation request whose video_id is missing or empty is
\* answered with status "error" and HTTP 400, and the store after the
\* request equals the store before it.
C1_MissingIdRejected ==
    [][(request'.op = "save_annotation" /\ MissingOrEmptyId(request'))
         => /\ response'.code = 400
            /\ response'.body.status = "error"
            /\ annotations_db' = annotations_db
            /\ heap' = heap]_vars
\* A rejected save_annotation answered from a store that holds a record.
C1_Witness ==
    /\ request.op = "save_annotation"
    /\ MissingOrEmptyId(request)
    /\ response.code = 400
    /\ \E v \in DOMAIN annotations_db : Len(Rec(v).annotations) > 0

\* C2: a save_annotation request with a non-empty video_id and a time that
\* is no number is answered with a 4xx structured error carrying a message,
\* and appends no entry to that video's annotations.
C2_NonNumericTimeIs4xx ==
    [][(/\ request'.op = "save_annotation"
        /\ ~MissingOrEmptyId(request')
        /\ "time" \in DOMAIN request'.data
        /\ request'.data["time"] \in NonNumeric)
         => /\ response'.code \in 400..499
            /\ response'.kind = "json"
            /\ "message" \in DOMAIN response'.body
            /\ (RequestId(request') \in DOMAIN annotations_db =>
                  RecIn(annotations_db', heap', RequestId(request')).annotations
                    = Rec(RequestId(request')).annotations)]_vars

\* A request that fails after its video_id was accepted: save_annotation
\* with a non-numeric time, set_critical_moment with a non-numeric or absent
\* critical_moment.
FailingRequest(req) ==
    /\ ~MissingOrEmptyId(req)
    /\ \/ /\ req.op = "save_annotation"
          /\ "time" \in DOMAIN req.data
          /\ req.data["time"] \in NonNumeric
       \/ /\ req.op = "set_critical_moment"
          /\ \/ "critical_moment" \notin DOMAIN req.data
             \/ req.data["critical_moment"] \in NonNumeric

\* C3: a failing save_annotation or set_critical_moment leaves the store
\* as it was; in particular it creates no record for an unseen video_id.
C3_FailedRequestKeepsStore ==
    [][FailingRequest(request')
         => Content(annotations_db', heap') = Content(annotations_db, heap)]_vars

\* C4: every record's critical_moment is None or a finite float, and every
\* stored annotation's time is a float.
C4_FiniteCriticalMoment ==
    \A v \in DOMAIN annotations_db :
        /\ Rec(v).critical_moment = None
             \/ IsFiniteFloat(Rec(v).critical_moment)
        /\ \A i \in 1..Len(Rec(v).annotations) :
             IsFloat(Rec(v).annotations[i]["time"])

\* C5: get_annotations(v) answers exactly the entries of the successful
\* save_annotation requests for v, once each and in arrival order, each with
\* a float time and a non-empty timestamp; for an id without a successful
\* write it answers the empty list, and never an error.
C5_GetReturnsSaved ==
    request.op = "get_annotations" =>
        /\ response.code = 200
        /\ response.body = (IF RequestId(request) \in VideoIds
                            THEN saved[RequestId(request)] ELSE <<>>)
        /\ \A i \in 1..Len(response.body) :
             /\ IsFloat(response.body[i]["time"])
             /\ response.body[i]["timestamp"].t = "str"
             /\ response.body[i]["timestamp"].s # <<>>
\* get_annotations answering two different entries.
C5_Witness ==
    /\ request.op = "get_annotations"
    /\ Len(response.body) = 2
    /\ response.body[1] # response.body[2]

\* C6: get_critical_moment(v) answers the float of the most recent
\* successful set_critical_moment for v, and None when there was none.
C6_GetReturnsLastSet ==
    request.op = "get_critical_moment" =>
        /\ response.code = 200
        /\ response.body.critical_moment =
             (IF RequestId(request) \in VideoIds
              THEN lastSet[RequestId(request)] ELSE None)
        /\ response.body.critical_moment # None
             => IsFloat(response.body.critical_moment)
\* get_critical_moment answering 7.5 for a video that also has annotations.
C6_Witness ==
    /\ request.op = "get_critical_moment"
    /\ response.body.critical_moment = FloatV(7500)
    /\ RequestId(request) \in DOMAIN annotations_db
    /\ Len(Rec(RequestId(request)).annotations) > 0

\* C7: a successful set_critical_moment answers the value it stored: the
\* critical_moment of its response is the float written to the record.
C7_SetReturnsStored ==
    (request.op = "set_critical_moment" /\ response.code = 200) =>
        response.body.critical_moment = Rec(RequestId(request)).critical_moment

\* C10: a request naming v leaves every other video id as it was;
\* save_annotation keeps v's critical_moment and only extends v's
\* annotations at the end; set_critical_moment keeps v's annotations; the
\* three read routes change nothing.
C10_Frame ==
    [][LET v == RequestId(request')
           before == Content(annotations_db, heap)
           after == Content(annotations_db', heap')
       IN /\ \A w \in (DOMAIN before) \cup (DOMAIN after) :
               w # v => w \in DOMAIN before /\ w \in DOMAIN after
                        /\ after[w] = before[w]
          /\ DOMAIN before \subseteq DOMAIN after
          /\ (request'.op = "save_annotation" /\ v \in DOMAIN before) =>
               /\ after[v].critical_moment = before[v].critical_moment
               /\ IsPrefix(before[v].annotations, after[v].annotations)
          /\ (request'.op = "set_critical_moment" /\ v \in DOMAIN before) =>
               after[v].annotations = before[v].annotations
          /\ request'.op \in {"get_annotations", "get_critical_moment",
                              "review_annotations"} =>
               /\ annotations_db' = annotations_db
               /\ heap' = heap]_vars
\* A successful save_annotation for V1 next to a V2 whose critical moment is
\* set, V1 holding an earlier entry and a critical moment of its own.
C10_Witness ==
    /\ request.op = "save_annotation"
    /\ response.code = 200
    /\ RequestId(request) = StrV(V1)
    /\ StrV(V2) \in DOMAIN annotations_db
    /\ Rec(StrV(V2)).critical_moment # None
    /\ Len(Rec(StrV(V1)).annotations) = 2
    /\ Rec(StrV(V1)).critical_moment # None

(* ========================= concurrent requests ========================= *)
\* Number of positions of list l that hold e.
Count(e, l) == Cardinality({i \in 1..Len(l) : l[i] = e})
\* Thread t's save_annotation has returned success.
SaveSucceeded(t) ==
    /\ threads[t].op = "save_annotation"
    /\ threads[t].pc = "done"
    /\ threads[t].resp.code = 200

\* C9: under any interleaving of the handlers' steps, every annotation
\* whose save_annotation returned success is present, whole and exactly
\* once, in its video's annotation sequence in every later state.
C9_NoAnnotationLost ==
    \A t \in Threads :
        SaveSucceeded(t) =>
            /\ threads[t].data["video_id"] \in DOMAIN annotations_db
            /\ Count(threads[t].data,
                     Rec(threads[t].data["video_id"]).annotations) = 1

\* C9, amended: video ids are never removed and appends are atomic.  Every
\* entry of every record is the whole payload of a request that has executed
\* its append on that record, and is there once; a record's list only grows
\* at its end; the annotation of a successful save_annotation stays, once, in
\* the record it was appended to; and a video id is rebound to another
\* record only by a create-record step for that id, which binds a fresh
\* empty record.
C9_AppendsAtomic ==
    /\ [](/\ \A t \in Threads :
               SaveSucceeded(t) =>
                 /\ threads[t].data["video_id"] \in DOMAIN annotations_db
                 /\ Count(threads[t].data,
                          heap[threads[t].ref].annotations) = 1
          /\ \A r \in 1..Len(heap) : \A i \in 1..Len(heap[r].annotations) :
               /\ Count(heap[r].annotations[i], heap[r].annotations) = 1
               /\ \E t \in Threads :
                    /\ threads[t].pc \in {"sa_return", "done"}
                    /\ threads[t].ref = r
                    /\ threads[t].data = heap[r].annotations[i])
    /\ [][/\ \A r \in 1..Len(heap) :
               /\ r <= Len(heap')
               /\ IsPrefix(heap[r].annotations, heap'[r].annotations)
          /\ \A v \in DOMAIN annotations_db :
               /\ v \in DOMAIN annotations_db'
               /\ annotations_db'[v] # annotations_db[v] =>
                    /\ heap'[annotations_db'[v]] = NewRecord
                    /\ \E t \in Threads :
                         /\ threads[t].pc \in {"sa_create", "cm_create"}
                         /\ threads'[t].pc # threads[t].pc
                         /\ threads[t].data["video_id"] = v]_vars
\* A save_annotation returned success, and its video id has since been
\* rebound to another record.
C9_Witness ==
    \E t \in Threads :
        /\ SaveSucceeded(t)
        /\ annotations_db[threads[t].data["video_id"]] # threads[t].ref
        /\ Count(threads[t].data, heap[threads[t].ref].annotations) = 1

(* ============================ the /videos scan ========================= *)
\* Two characters that are equal up to case.
SameLetter(a, b) ==
    \/ a = b
    \/ {a, b} \in {{"m", "M"}, {"p", "P"}, {"c", "C"}, {"s", "S"},
                   {"v", "V"}, {"d", "D"}, {"f", "F"}}
\* name ends in extension ext, compared without case, after a base name
\* that is more than dots.
HasExtension(name, ext) ==
    LET k == Len(name) - Len(ext)
    IN /\ k >= 1
       /\ \A i \in 1..Len(ext) : SameLetter(name[k + i], ext[i])
       /\ \E j \in 1..k : name[j] # "."
\* The positions of list that hold a plain file with extension ext.
FilesWith(list, ext) ==
    {i \in 1..Len(list) : ~list[i].isdir /\ HasExtension(list[i].name, ext)}
Last(S) == CHOOSE i \in S : \A j \in S : j <= i
\* The triple of a folder: for each type, its last file in enumeration order.
TripleOf(e) ==
    [folder |-> e.name,
     video_url |-> StaticUrl(e.name, e.list[Last(FilesWith(e.list, Mp4))].name),
     csv_url |-> StaticUrl(e.name, e.list[Last(FilesWith(e.list, Csv))].name),
     pdf_url |-> StaticUrl(e.name, e.list[Last(FilesWith(e.list, Pdf))].name)]
\* A subfolder with at least one file of each of the three types.
Complete(e) ==
    /\ e.isdir
    /\ FilesWith(e.list, Mp4) # {}
    /\ FilesWith(e.list, Csv) # {}
    /\ FilesWith(e.list, Pdf) # {}

\* C8: the scan emits exactly one triple for each immediate subfolder whose
\* direct file entries include a .mp4, a .csv and a .pdf (extensions compared
\* without case, nested directories skipped), none for any other entry, and
\* a triple references the last enumerated file of each type.
C8_ScanEmitsCompleteFolders ==
    blasts.done =>
        /\ \A i \in 1..Len(fs) :
             IF Complete(fs[i])
             THEN /\ Count(TripleOf(fs[i]), blasts.list) = 1
                  /\ \A j \in 1..Len(blasts.list) :
                       blasts.list[j].folder = fs[i].name
                         => blasts.list[j] = TripleOf(fs[i])
             ELSE \A j \in 1..Len(blasts.list) :
                    blasts.list[j].folder # fs[i].name
        /\ \A j \in 1..Len(blasts.list) :
             \E i \in 1..Len(fs) : blasts.list[j].folder = fs[i].name
\* A scan that emitted one folder, which holds two videos, the one in upper
\* case last, and dropped the other folder.
C8_Witness ==
    /\ blasts.done
    /\ Len(blasts.list) = 1
    /\ \E i, j \in 1..Len(fs) :
         /\ fs[i].isdir /\ fs[j].isdir /\ ~Complete(fs[j])
         /\ Complete(fs[i])
         /\ Cardinality(FilesWith(fs[i].list, Mp4)) = 2
         /\ blasts.list[1].video_url
              = StaticUrl(fs[i].name, <<"Y", ".", "M", "P", "4">>)

====
